---- MODULE Spec2Model ----
(***************************************************************************)
(* A model of package di (src/di.go): NewProvider builds a registry of     *)
(* provider functions keyed by produced type and validates it; Provide     *)
(* fills the fields of a destination struct, resolving each type           *)
(* recursively and memoizing it in the Provider's resolvedTypes cache.     *)
(*                                                                         *)
(* A reflect.Type is a string, a map is a function whose DOMAIN is the set *)
(* of its keys, and an error is the sequence of the layers of its cause    *)
(* chain (what errors.Unwrap walks), outermost first; nil is <<>>.         *)
(***************************************************************************)
EXTENDS Integers, Sequences, FiniteSets, TLC

\* ------------------------------------------------------------------ bounds

\* The most providers one NewProvider call is given.
MaxProviders == 3
\* The most Provide calls made on one Provider.
MaxCalls == 2
\* The depth of nested resolve frames the goroutine stack holds; one more
\* frame is Go's fatal "stack overflow", which ends the process.
MaxStack == 4

\* ------------------------------------------------------------- the inputs

\* The types providers produce and need (the keys of the two maps).
Types == {"A", "B", "C"}

\* The builtin error interface, as providerType.Out(1).String() names it.
ErrorType == "error"

\* A value handed to NewProvider. kind: "func" when its reflect Kind is
\* Func, "other" for any other Kind, "invalid" for an untyped nil, which has
\* no reflect.Type; isNil: a nil function value; in, out: the types of its
\* parameters and results; name: what getFunctionName returns for it;
\* fresh: whether each invocation returns a value distinct from every
\* earlier one (a new pointer, a counter) or always the same one.
Provider(kind, isNil, name, in, out, fresh) ==
    [kind |-> kind, isNil |-> isNil, name |-> name, in |-> in, out |-> out,
     fresh |-> fresh]

Func(name, in, out, fresh) == Provider("func", FALSE, name, in, out, fresh)

\* The functions of the program that are passed as providers: plain
\* constructors, constructors that can fail, a two-argument constructor, the
\* pairs that close a 2-cycle (pAb with pB, pAc with pC), a 3-cycle (pAc, pB,
\* pCb), a provider of its own input, every malformed output list, a nil
\* function, a value that is no function, and an untyped nil.
Funcs ==
    { Func("pA",  <<>>,         <<"A">>,            FALSE),
      Func("pAe", <<>>,         <<"A", ErrorType>>, TRUE),
      Func("pB",  <<"A">>,      <<"B">>,            FALSE),
      Func("pBe", <<"A">>,      <<"B", ErrorType>>, TRUE),
      Func("pC",  <<"B", "A">>, <<"C">>,            FALSE),
      Func("pCb", <<"B">>,      <<"C", ErrorType>>, TRUE),
      Func("pAb", <<"B">>,      <<"A">>,            FALSE),
      Func("pAc", <<"C">>,      <<"A">>,            FALSE),
      Func("pAa", <<"A">>,      <<"A">>,            FALSE),
      Func("pBc", <<"A", "C">>, <<"B", ErrorType>>, FALSE),
      Func("noOut",     <<>>,      <<>>,                   FALSE),
      Func("threeOut",  <<"A">>,   <<"A", "B", ErrorType>>, FALSE),
      Func("badSecond", <<>>,      <<"A", "B">>,           FALSE),
      Provider("func",    TRUE,  "", <<>>, <<"A">>, FALSE),
      Provider("other",   FALSE, "", <<>>, <<>>,    FALSE),
      Provider("invalid", TRUE,  "", <<>>, <<>>,    FALSE) }

\* The argument lists of NewProvider.
ProviderLists == UNION { [1..n -> Funcs] : n \in 0..MaxProviders }

\* ------------------------------------------------------------------ errors

NoError == <<>>

\* errors.New / fmt.Errorf without %w: an error with no cause.
NewError(layer) == <<layer>>

\* A faulty variant of Errorf: the cause is formatted with %v, not wrapped.
ErrorfNoWrap(layer, err) == <<layer>>

\* fmt.Errorf("...: %w", err): a new outermost layer over err's chain.
Errorf(layer, err) == <<layer>> \o err

\* errors.Is(err, target) for a target that is a single layer.
ErrorsIs(err, target) == \E i \in 1..Len(err) : err[i] = target

\* ------------------------------------------------------------- the builder

EmptyMap == [t \in {} |-> 0]

\* slices.Contains
Contains(s, x) == \E i \in 1..Len(s) : s[i] = x

\* getFunctionName: runtime.FuncForPC finds no function for the zero PC of
\* a nil function value.
getFunctionName(provider) ==
    IF provider.isNil
    THEN NewError([msg |-> "failed to get function runtime"])
    ELSE NoError

\* A faulty variant of shapeError: of the outputs only their presence is
\* checked.
shapeErrorLax(provider, i) ==
    IF provider.kind # "func"
    THEN NewError([msg |-> "provider is not a function", index |-> i])
    ELSE IF getFunctionName(provider) # NoError
    THEN Errorf([msg |-> "failed to get function name for provider", index |-> i],
                getFunctionName(provider))
    ELSE IF Len(provider.out) < 1
    THEN NewError([msg |-> "provider has no output", index |-> i,
                   name |-> provider.name])
    ELSE NoError

\* parseProviders, the checks of one provider before the duplicate test:
\* the error of the first check that fails, or nil. i is the Go index
\* (from 0).
shapeError(provider, i) ==
    IF provider.kind # "func"
    THEN NewError([msg |-> "provider is not a function", index |-> i])
    ELSE IF getFunctionName(provider) # NoError
    THEN Errorf([msg |-> "failed to get function name for provider", index |-> i],
                getFunctionName(provider))
    ELSE IF Len(provider.out) < 1
    THEN NewError([msg |-> "provider has no output", index |-> i,
                   name |-> provider.name])
    ELSE IF Len(provider.out) > 2
    THEN NewError([msg |-> "provider has more than two outputs", index |-> i,
                   name |-> provider.name])
    ELSE IF Len(provider.out) = 2 /\ provider.out[2] # ErrorType
    THEN NewError([msg |-> "second output is not an error", index |-> i,
                   name |-> provider.name])
    ELSE NoError

\* A faulty variant of isDuplicate: a second provider of a type replaces the first.
isDuplicateNever(parsed, out) == FALSE

\* parseProviders, `_, ok := parsed[out]`.
isDuplicate(parsed, out) == out \in DOMAIN parsed

\* The providerInfo parseProviders stores for a provider.
providerInfo(provider) ==
    [providerName |-> provider.name,
     providedType |-> provider.out[1],
     deps         |-> provider.in,
     hasError     |-> Len(provider.out) = 2,
     fresh        |-> provider.fresh]

\* parseProviders, the loop from Go index i - 1 on, with the map built so
\* far. panic: reflect.TypeOf returned nil for an untyped nil provider and
\* providerType.Kind() dereferenced it.
RECURSIVE parseFrom(_, _, _)
parseFrom(depProviders, i, parsed) ==
    IF i > Len(depProviders)
    THEN [parsed |-> parsed, err |-> NoError, panic |-> FALSE]
    ELSE LET provider == depProviders[i]
             shape    == shapeError(provider, i - 1)
         IN  IF provider.kind = "invalid"
             THEN [parsed |-> EmptyMap, err |-> NoError, panic |-> TRUE]
             ELSE IF shape # NoError
             THEN [parsed |-> EmptyMap, err |-> shape, panic |-> FALSE]
             ELSE IF isDuplicate(parsed, provider.out[1])
             THEN [parsed |-> EmptyMap, panic |-> FALSE,
                   err |-> NewError([msg |-> "provider returns the same type",
                                     index |-> i - 1,
                                     name |-> provider.name,
                                     type |-> provider.out[1],
                                     other |-> parsed[provider.out[1]].providerName])]
             ELSE parseFrom(depProviders, i + 1,
                            (provider.out[1] :> providerInfo(provider)) @@ parsed)

parseProviders(depProviders) == parseFrom(depProviders, 1, EmptyMap)

\* A faulty variant of isProvided: every dependency counts as provided.
isProvidedAlways(allProvidedTypes, dep) == TRUE

\* allSubDepsProvided, `_, ok := allProvidedTypes[dep]`.
isProvided(allProvidedTypes, dep) == dep \in DOMAIN allProvidedTypes

\* The first dependency of a provider that is not provided: what the inner
\* loop of allSubDepsProvided returns for it (0 when it has none).
firstMissing(allProvidedTypes, deps) ==
    LET missing == { j \in 1..Len(deps) : ~isProvided(allProvidedTypes, deps[j]) }
    IN  IF missing = {} THEN 0
        ELSE CHOOSE j \in missing : \A k \in missing : j <= k

\* allSubDepsProvided: the errors it can return. Go ranges over the map in
\* an unspecified order, so the error names the first missing dependency of
\* whichever provider with one comes first; {nil} when none has one.
allSubDepsProvided(allProvidedTypes) ==
    LET bad == { t \in DOMAIN allProvidedTypes :
                   firstMissing(allProvidedTypes, allProvidedTypes[t].deps) # 0 }
    IN  IF bad = {} THEN {NoError}
        ELSE { NewError([msg |-> "dependency is not provided",
                         type |-> allProvidedTypes[t].deps[
                                    firstMissing(allProvidedTypes,
                                                 allProvidedTypes[t].deps)]]) :
               t \in bad }

\* A faulty variant of mutualDependency: the second test looks for the provider's
\* own type, not the other's, in its dependencies.
mutualDependencyOwnType(provider, otherProvider) ==
    /\ Contains(otherProvider.deps, provider.providedType)
    /\ Contains(provider.deps, provider.providedType)

\* checkForCyclicDependencies, the test on one pair of providers.
mutualDependency(provider, otherProvider) ==
    /\ Contains(otherProvider.deps, provider.providedType)
    /\ Contains(provider.deps, otherProvider.providedType)

\* A faulty variant of checkForCyclicDependencies: a pair of providers is also
\* reported when the first depends on the second and the second depends on
\* it through a third provider.
checkForCyclicDependenciesLong(allProvidedTypes) ==
    LET pairs == { p \in (DOMAIN allProvidedTypes) \X (DOMAIN allProvidedTypes) :
                     /\ p[1] # p[2]
                     /\ \/ mutualDependency(allProvidedTypes[p[1]],
                                            allProvidedTypes[p[2]])
                        \/ /\ Contains(allProvidedTypes[p[1]].deps, p[2])
                           /\ \E q \in DOMAIN allProvidedTypes \ {p[1], p[2]} :
                                 /\ Contains(allProvidedTypes[p[2]].deps, q)
                                 /\ Contains(allProvidedTypes[q].deps, p[1]) }
    IN  IF pairs = {} THEN {NoError}
        ELSE { NewError([msg |-> "cyclic dependency found between providers",
                         name |-> allProvidedTypes[p[1]].providerName,
                         other |-> allProvidedTypes[p[2]].providerName]) :
               p \in pairs }

\* checkForCyclicDependencies: the errors it can return, one for every
\* ordered pair of distinct mutually dependent providers (the map order
\* decides which pair is met first); {nil} when there is none.
checkForCyclicDependencies(allProvidedTypes) ==
    LET pairs == { p \in (DOMAIN allProvidedTypes) \X (DOMAIN allProvidedTypes) :
                     /\ p[1] # p[2]
                     /\ mutualDependency(allProvidedTypes[p[1]],
                                         allProvidedTypes[p[2]]) }
    IN  IF pairs = {} THEN {NoError}
        ELSE { NewError([msg |-> "cyclic dependency found between providers",
                         name |-> allProvidedTypes[p[1]].providerName,
                         other |-> allProvidedTypes[p[2]].providerName]) :
               p \in pairs }

\* No *Provider.
NoProvider == [allProvidedTypes |-> EmptyMap, resolvedTypes |-> EmptyMap]

\* A faulty variant of NewProvider: the cycle check runs before the
\* missing-dependency check.
NewProviderCycleFirst(depProviders) ==
    LET parse == parseProviders(depProviders)
    IN  IF parse.panic
        THEN { [ok |-> FALSE, panic |-> TRUE, provider |-> NoProvider, err |-> NoError] }
        ELSE IF parse.err # NoError
        THEN { [ok |-> FALSE, panic |-> FALSE, provider |-> NoProvider,
                err |-> Errorf([msg |-> "failed to parse providers"], parse.err)] }
        ELSE LET cyclic == checkForCyclicDependencies(parse.parsed)
             IN  IF cyclic # {NoError}
                 THEN { [ok |-> FALSE, panic |-> FALSE, provider |-> NoProvider,
                         err |-> Errorf([msg |-> "should not have cyclic dependencies"], e)] :
                        e \in cyclic }
                 ELSE LET missing == allSubDepsProvided(parse.parsed)
                      IN  IF missing # {NoError}
                          THEN { [ok |-> FALSE, panic |-> FALSE, provider |-> NoProvider,
                                  err |-> Errorf([msg |-> "all deps must be provided"], e)] :
                                 e \in missing }
                          ELSE { [ok |-> TRUE, panic |-> FALSE,
                                  provider |-> [allProvidedTypes |-> parse.parsed,
                                                resolvedTypes |-> EmptyMap],
                                  err |-> NoError] }

\* NewProvider: the results (provider, err) it can return for an argument
\* list. ok tells whether a *Provider is returned (err is nil); panic,
\* that the call panicked and returned nothing.
NewProvider(depProviders) ==
    LET parse == parseProviders(depProviders)
    IN  IF parse.panic
        THEN { [ok |-> FALSE, panic |-> TRUE, provider |-> NoProvider, err |-> NoError] }
        ELSE IF parse.err # NoError
        THEN { [ok |-> FALSE, panic |-> FALSE, provider |-> NoProvider,
                err |-> Errorf([msg |-> "failed to parse providers"], parse.err)] }
        ELSE LET missing == allSubDepsProvided(parse.parsed)
             IN  IF missing # {NoError}
                 THEN { [ok |-> FALSE, panic |-> FALSE, provider |-> NoProvider,
                         err |-> Errorf([msg |-> "all deps must be provided"], e)] :
                        e \in missing }
                 ELSE LET cyclic == checkForCyclicDependencies(parse.parsed)
                      IN  IF cyclic # {NoError}
                          THEN { [ok |-> FALSE, panic |-> FALSE, provider |-> NoProvider,
                                  err |-> Errorf([msg |-> "should not have cyclic dependencies"], e)] :
                                 e \in cyclic }
                          ELSE { [ok |-> TRUE, panic |-> FALSE,
                                  provider |-> [allProvidedTypes |-> parse.parsed,
                                                resolvedTypes |-> EmptyMap],
                                  err |-> NoError] }

\* ------------------------------------------------------------- the values

\* A reflect.Value: the result of the inv-th invocation of the provider of
\* type with the arguments args (inv is 0 for a provider that returns the
\* same value every time), or one of the three values below.
Value(type, inv, args) == [type |-> type, inv |-> inv, args |-> args]

\* The zero value a fresh destination field holds.
Zero == Value("zero", 0, <<>>)
\* A value the caller stored in a destination field before the call.
Preset == Value("preset", 0, <<>>)
\* reflect.Value{}, returned beside an error.
Invalid == Value("invalid", 0, <<>>)

\* ------------------------------------------------------- the destinations

\* A struct field. tag: the `di` tag; kind: "struct" or "other", the
\* reflect Kind of the field; exported: whether its name is exported (an
\* unexported field is neither CanInterface nor CanSet); type: its
\* reflect.Type; value: what it holds (a field of kind other); fields: its
\* own fields (a field of kind struct).
Field(name, tag, kind, exported, type, value, fields) ==
    [name |-> name, tag |-> tag, kind |-> kind, exported |-> exported,
     type |-> type, value |-> value, fields |-> fields]

Default(name, type, value) == Field(name, "", "other", TRUE, type, value, <<>>)
Ignored(name, type, value) == Field(name, "-", "other", TRUE, type, value, <<>>)
Group(name, type, fields)  == Field(name, "group", "struct", TRUE, type, Zero, fields)

\* The dst argument of Provide. kind "ptrStruct": a pointer to a struct
\* with these fields; "nilPtrStruct": a nil pointer of such a type;
\* "struct": a struct passed by value; "ptrOther": a pointer to something
\* that is no struct; "nil": an untyped nil.
Dst(kind, fields) == [kind |-> kind, fields |-> fields]

\* The destinations the program passes to Provide.
Destinations ==
    { Dst("ptrStruct", <<Default("X", "A", Zero)>>),
      Dst("ptrStruct", <<Default("X", "B", Zero), Default("Y", "A", Preset)>>),
      Dst("ptrStruct", <<Default("X", "A", Zero), Ignored("Y", "C", Preset),
                         Default("Z", "B", Zero)>>),
      Dst("ptrStruct", <<Default("X", "C", Zero), Default("Y", "A", Preset)>>),
      Dst("ptrStruct", <<Default("X", "A", Zero),
                         Group("G", "C", <<Default("V", "A", Zero),
                                           Default("Y", "B", Preset)>>),
                         Default("W", "C", Zero)>>),
      Dst("ptrStruct", <<Group("G", "G", <<Group("H", "H", <<Default("X", "C", Zero)>>),
                                           Default("Y", "A", Preset)>>),
                         Default("Z", "B", Zero)>>),
      Dst("ptrStruct", <<Default("X", "A", Zero),
                         Field("G", "group", "other", TRUE, "B", Preset, <<>>),
                         Default("Z", "C", Zero)>>),
      Dst("ptrStruct", <<Group("G", "C", <<Default("Y", "A", Zero)>>),
                         Default("Z", "A", Zero)>>),
      Dst("ptrStruct", <<Field("g", "group", "struct", FALSE, "G", Zero,
                               <<Default("Y", "A", Zero)>>),
                         Default("Z", "A", Zero)>>),
      Dst("ptrStruct", <<Field("x", "", "other", FALSE, "A", Zero, <<>>),
                         Default("Y", "B", Zero)>>),
      Dst("nilPtrStruct", <<Default("X", "A", Zero)>>),
      Dst("struct",   <<Default("X", "A", Zero)>>),
      Dst("ptrOther", <<>>),
      Dst("nil",      <<>>) }

\* ------------------------------------------------------------ the resolver

\* What one Provide call works on: the Provider's two maps, how often each
\* provider function has been invoked so far, and the events of this call.
\* An event is a provider invocation ("call": its type, its arguments, the
\* keys of resolvedTypes at that moment, whether it returned an error), an
\* iteration of Provide's loop ("visit": the field's type, name and tag), a
\* field assignment ("set": the field's type and the value) or the creation
\* of an error that no provider returned ("error").
Event(ev, type, args, cached, failed) ==
    [ev |-> ev, type |-> type, args |-> args, cached |-> cached, failed |-> failed]

\* A faulty variant of isResolved: the cache is never consulted.
isResolvedNever(s, fieldType) == FALSE

\* resolve, `value, ok := c.resolvedTypes[fieldType]`.
isResolved(s, fieldType) == fieldType \in DOMAIN s.resolvedTypes

\* A faulty variant of storeResolved: the resolved value is never cached.
storeResolvedNever(s, fieldType, resolvedValue, failed) == s

\* A faulty variant of storeResolved: a provider's error empties the cache.
storeResolvedReset(s, fieldType, resolvedValue, failed) ==
    IF failed THEN [s EXCEPT !.resolvedTypes = EmptyMap]
    ELSE [s EXCEPT !.resolvedTypes = (fieldType :> resolvedValue) @@ s.resolvedTypes]

\* A faulty variant of storeResolved: the value of a provider without
\* dependencies is not cached.
storeResolvedSkipLeaves(s, fieldType, resolvedValue, failed) ==
    IF failed \/ s.allProvidedTypes[fieldType].deps = <<>> THEN s
    ELSE [s EXCEPT !.resolvedTypes = (fieldType :> resolvedValue) @@ s.resolvedTypes]

\* A faulty variant of storeResolved: what the provider returned is cached
\* whether or not it returned an error.
storeResolvedAlways(s, fieldType, resolvedValue, failed) ==
    [s EXCEPT !.resolvedTypes = (fieldType :> resolvedValue) @@ s.resolvedTypes]

\* resolve, `c.resolvedTypes[fieldType] = resolvedValue`, which is reached
\* only when the provider returned no error.
storeResolved(s, fieldType, resolvedValue, failed) ==
    IF failed THEN s
    ELSE [s EXCEPT !.resolvedTypes = (fieldType :> resolvedValue) @@ s.resolvedTypes]

\* provider.provider.Call(resolvedDeps): the provider of fieldType runs. It
\* returns a non-nil error exactly when it has an error result and the
\* caller's environment makes it fail during this call (fieldType \in fail).
call(s, fieldType, resolvedDeps, fail) ==
    LET provider == s.allProvidedTypes[fieldType]
        n        == s.invoked[fieldType] + 1
        failed   == provider.hasError /\ fieldType \in fail
    IN  [s |-> [s EXCEPT !.invoked[fieldType] = n,
                         !.log = Append(@, Event("call", fieldType, resolvedDeps,
                                                 DOMAIN s.resolvedTypes, failed))],
         failed |-> failed,
         value  |-> Value(fieldType, IF provider.fresh THEN n ELSE 0, resolvedDeps),
         cause  |-> NewError([msg |-> "provider error", type |-> fieldType, inv |-> n])]

\* What resolve returns: the state, the value, the error, and fatal: the
\* recursion exhausted the stack.
Resolved(s, value, err, fatal) == [s |-> s, value |-> value, err |-> err, fatal |-> fatal]

RECURSIVE resolve(_, _, _, _)
RECURSIVE resolveDeps(_, _, _, _, _, _)

\* A faulty variant of resolveDeps: a dependency found in the cache is passed
\* to the provider as the zero value.
resolveDepsSkipCached(s, deps, j, resolvedDeps, fail, depth) ==
    IF j > Len(deps)
    THEN Resolved(s, resolvedDeps, NoError, FALSE)
    ELSE LET r == resolve(s, deps[j], fail, depth + 1)
         IN  IF r.fatal THEN r
             ELSE IF r.err # NoError
             THEN Resolved(r.s, Invalid,
                           Errorf([msg |-> "failed to resolve dependency",
                                   type |-> deps[j]], r.err),
                           FALSE)
             ELSE resolveDeps(r.s, deps, j + 1,
                              Append(resolvedDeps,
                                     IF isResolved(s, deps[j]) THEN Zero ELSE r.value),
                              fail, depth)

\* A faulty variant of resolveDeps: each resolved value is put in front of
\* the earlier ones, so the arguments come in reverse order.
resolveDepsReversed(s, deps, j, resolvedDeps, fail, depth) ==
    IF j > Len(deps)
    THEN Resolved(s, resolvedDeps, NoError, FALSE)
    ELSE LET r == resolve(s, deps[j], fail, depth + 1)
         IN  IF r.fatal THEN r
             ELSE IF r.err # NoError
             THEN Resolved(r.s, Invalid,
                           Errorf([msg |-> "failed to resolve dependency",
                                   type |-> deps[j]], r.err),
                           FALSE)
             ELSE resolveDeps(r.s, deps, j + 1, <<r.value>> \o resolvedDeps,
                              fail, depth)

\* resolve, the loop over provider.deps from the j-th on; resolvedDeps are
\* the values so far. Its value is the list of all of them.
resolveDeps(s, deps, j, resolvedDeps, fail, depth) ==
    IF j > Len(deps)
    THEN Resolved(s, resolvedDeps, NoError, FALSE)
    ELSE LET r == resolve(s, deps[j], fail, depth + 1)
         IN  IF r.fatal THEN r
             ELSE IF r.err # NoError
             THEN Resolved(r.s, Invalid,
                           Errorf([msg |-> "failed to resolve dependency",
                                   type |-> deps[j]], r.err),
                           FALSE)
             ELSE resolveDeps(r.s, deps, j + 1, Append(resolvedDeps, r.value),
                              fail, depth)

\* Provider.resolve, as the depth-th nested frame.
resolve(s, fieldType, fail, depth) ==
    IF depth > MaxStack
    THEN Resolved(s, Invalid, NoError, TRUE)
    ELSE IF isResolved(s, fieldType)
    THEN Resolved(s, s.resolvedTypes[fieldType], NoError, FALSE)
    ELSE IF fieldType \notin DOMAIN s.allProvidedTypes
    THEN Resolved([s EXCEPT !.log = Append(@, Event("error", fieldType, <<>>,
                                                    DOMAIN s.resolvedTypes, TRUE))],
                  Invalid,
                  NewError([msg |-> "no provider found for type", type |-> fieldType]),
                  FALSE)
    ELSE LET provider == s.allProvidedTypes[fieldType]
             d == resolveDeps(s, provider.deps, 1, <<>>, fail, depth)
         IN  IF d.fatal \/ d.err # NoError THEN d
             ELSE LET results == call(d.s, fieldType, d.value, fail)
                  IN  IF results.failed
                      THEN Resolved(storeResolved(results.s, fieldType, results.value, TRUE),
                                    Invalid,
                                    Errorf([msg |-> "failed to resolve value",
                                            name |-> provider.providerName],
                                           results.cause),
                                    FALSE)
                      ELSE Resolved(storeResolved(results.s, fieldType, results.value, FALSE),
                                    results.value, NoError, FALSE)

\* ------------------------------------------------------------ the injector

\* What Provide returns: the state, the destination's fields as the call
\* left them, the error, and abort: "none" when Provide returned, "panic"
\* when reflect panicked, "fatal" when the stack overflowed.
Provided(s, fields, err, abort) ==
    [s |-> s, fields |-> fields, err |-> err, abort |-> abort]

\* reflect.Value.CanSet for a field of an addressable struct: field.Set
\* panics on a field obtained through an unexported name.
canSet(field) == field.exported

\* The origin of an error that no provider returned, in the log.
logError(s, type) ==
    [s EXCEPT !.log = Append(@, Event("error", type, <<>>, DOMAIN s.resolvedTypes, TRUE))]

\* field.Set(fieldValue), in the log.
logSet(s, field, fieldValue) ==
    [s EXCEPT !.log = Append(@, Event("set", field.type, <<fieldValue>>,
                                      DOMAIN s.resolvedTypes, FALSE))]

\* One iteration of Provide's loop, in the log.
logVisit(s, field) ==
    [s EXCEPT !.log = Append(@, Event("visit", field.type, <<field.name, field.tag>>,
                                      DOMAIN s.resolvedTypes, FALSE))]

\* A faulty variant of isIgnored: the "-" tag is not recognised.
isIgnoredNever(field) == FALSE

\* Provide, `case "-"`.
isIgnored(field) == field.tag = "-"

\* Provide, `case "group"`.
isGroup(field) == field.tag = "group"

RECURSIVE Provide(_, _, _)
RECURSIVE provideFields(_, _, _, _)
RECURSIVE resolveGroup(_, _, _)

\* A faulty variant of resolveGroup: the group field's own type is resolved
\* like a default field's before its sub-fields are injected.
resolveGroupLookup(s, field, fail) ==
    LET p == Provide(resolve(s, field.type, fail, 1).s,
                     Dst("ptrStruct", field.fields), fail)
    IN  IF p.abort = "none" /\ p.err # NoError
        THEN Provided(p.s, p.fields,
                      Errorf([msg |-> "failed to provide group",
                              name |-> field.name], p.err),
                      "none")
        ELSE p

\* Provider.resolveGroup. A field of a struct reached through a pointer is
\* always addressable, so the CanAddr test never fails.
resolveGroup(s, field, fail) ==
    IF field.kind # "struct"
    THEN Provided(logError(s, field.type), field.fields,
                  NewError([msg |-> "di:group can only be used on struct fields",
                            name |-> field.name]),
                  "none")
    ELSE IF ~field.exported
    THEN Provided(logError(s, field.type), field.fields,
                  NewError([msg |-> "di:group can only be used on exported struct fields",
                            name |-> field.name]),
                  "none")
    ELSE LET p == Provide(s, Dst("ptrStruct", field.fields), fail)
         IN  IF p.abort = "none" /\ p.err # NoError
             THEN Provided(p.s, p.fields,
                           Errorf([msg |-> "failed to provide group",
                                   name |-> field.name], p.err),
                           "none")
             ELSE p

\* A faulty variant of provideFields: a default field that fails to resolve is
\* skipped and the loop goes on; its error is returned at the end.
provideFieldsContinue(s, fields, i, fail) ==
    IF i > Len(fields)
    THEN Provided(s, fields, NoError, "none")
    ELSE LET field == fields[i]
             v == logVisit(s, field)
         IN  IF isGroup(field)
             THEN LET g == resolveGroup(v, field, fail)
                      after == [fields EXCEPT ![i].fields = g.fields]
                  IN  IF g.abort # "none"
                      THEN Provided(g.s, after, NoError, g.abort)
                      ELSE IF g.err # NoError
                      THEN Provided(g.s, after,
                                    Errorf([msg |-> "failed to resolve group",
                                            name |-> field.name], g.err),
                                    "none")
                      ELSE provideFields(g.s, after, i + 1, fail)
             ELSE IF isIgnored(field)
             THEN provideFields(v, fields, i + 1, fail)
             ELSE LET r == resolve(v, field.type, fail, 1)
                  IN  IF r.fatal
                      THEN Provided(r.s, fields, NoError, "fatal")
                      ELSE IF r.err # NoError
                      THEN LET rest == provideFields(r.s, fields, i + 1, fail)
                           IN  Provided(rest.s, rest.fields,
                                        Errorf([msg |-> "failed to resolve field",
                                                name |-> field.name], r.err),
                                        rest.abort)
                      ELSE IF ~canSet(field)
                      THEN Provided(r.s, fields, NoError, "panic")
                      ELSE provideFields(logSet(r.s, field, r.value),
                                         [fields EXCEPT ![i].value = r.value],
                                         i + 1, fail)

\* Provider.Provide, the loop over the fields from the i-th on.
provideFields(s, fields, i, fail) ==
    IF i > Len(fields)
    THEN Provided(s, fields, NoError, "none")
    ELSE LET field == fields[i]
             v == logVisit(s, field)
         IN  IF isGroup(field)
             THEN LET g == resolveGroup(v, field, fail)
                      after == [fields EXCEPT ![i].fields = g.fields]
                  IN  IF g.abort # "none"
                      THEN Provided(g.s, after, NoError, g.abort)
                      ELSE IF g.err # NoError
                      THEN Provided(g.s, after,
                                    Errorf([msg |-> "failed to resolve group",
                                            name |-> field.name], g.err),
                                    "none")
                      ELSE provideFields(g.s, after, i + 1, fail)
             ELSE IF isIgnored(field)
             THEN provideFields(v, fields, i + 1, fail)
             ELSE LET r == resolve(v, field.type, fail, 1)
                  IN  IF r.fatal
                      THEN Provided(r.s, fields, NoError, "fatal")
                      ELSE IF r.err # NoError
                      THEN Provided(r.s, fields,
                                    Errorf([msg |-> "failed to resolve field",
                                            name |-> field.name], r.err),
                                    "none")
                      ELSE IF ~canSet(field)
                      THEN Provided(r.s, fields, NoError, "panic")
                      ELSE provideFields(logSet(r.s, field, r.value),
                                         [fields EXCEPT ![i].value = r.value],
                                         i + 1, fail)

\* A faulty variant of Provide: the destination's kind is not tested and the
\* loop runs over the fields of whatever was passed.
ProvideUnchecked(s, dst, fail) ==
    IF dst.kind \in {"nil", "nilPtrStruct"}
    THEN Provided(s, dst.fields, NoError, "panic")
    ELSE provideFields(s, dst.fields, 1, fail)

\* Provider.Provide. reflect.TypeOf(nil) is nil, so dstType.Kind() panics
\* for an untyped nil; a nil pointer to a struct passes the test, its
\* Elem() is the zero Value and NumField() panics on it.
Provide(s, dst, fail) ==
    IF dst.kind = "nil"
    THEN Provided(s, dst.fields, NoError, "panic")
    ELSE IF dst.kind \notin {"ptrStruct", "nilPtrStruct"}
    THEN Provided(logError(s, dst.kind), dst.fields,
                  NewError([msg |-> "destination must be a pointer to a struct",
                            kind |-> dst.kind]),
                  "none")
    ELSE IF dst.kind = "nilPtrStruct"
    THEN Provided(s, dst.fields, NoError, "panic")
    ELSE provideFields(s, dst.fields, 1, fail)

\* --------------------------------------------------------------- the state

VARIABLES
    phase,      \* "start": no NewProvider call yet; "failed": it returned an
                \* error or panicked; "ready": it returned a *Provider; "crashed": a
                \* stack overflow ended the process
    c,          \* the *Provider: allProvidedTypes and resolvedTypes
    invoked,    \* how many times each type's provider function has run
    succeeded,  \* how many of those runs returned a nil error
    delivered,  \* every <<type, value>> handed to a consumer so far: a
                \* destination field that was set, a provider's argument
    nCalls,     \* the Provide calls made
    last        \* the latest call of the API, its arguments and its results

vars == <<phase, c, invoked, succeeded, delivered, nCalls, last>>

\* The record of a call. op: "NewProvider" or "Provide" ("none" before the
\* first). depProviders, err, abort: NewProvider's argument, its error, and
\* "panic" when it panicked. dst, fail:
\* Provide's argument and the types whose providers fail during the call;
\* before: resolvedTypes when it was called; out: the destination's fields
\* after it; err, abort: how it ended; log: its events.
CallRecord(op, depProviders, dst, fail, before, out, err, abort, log) ==
    [op |-> op, depProviders |-> depProviders, dst |-> dst, fail |-> fail,
     before |-> before, out |-> out, err |-> err, abort |-> abort, log |-> log]

NoDst == Dst("none", <<>>)

Init ==
    /\ phase = "start"
    /\ c = NoProvider
    /\ invoked = [t \in Types |-> 0]
    /\ succeeded = [t \in Types |-> 0]
    /\ delivered = {}
    /\ nCalls = 0
    /\ last = CallRecord("none", <<>>, NoDst, {}, EmptyMap, <<>>, NoError, "none", <<>>)

\* The program calls NewProvider(depProviders...).
NewProviderCall ==
    /\ phase = "start"
    /\ \E depProviders \in ProviderLists :
       \E r \in NewProvider(depProviders) :
          /\ phase' = IF r.ok THEN "ready" ELSE "failed"
          /\ c' = r.provider
          /\ last' = CallRecord("NewProvider", depProviders, NoDst, {}, EmptyMap,
                                <<>>, r.err, IF r.panic THEN "panic" ELSE "none", <<>>)
    /\ UNCHANGED <<invoked, succeeded, delivered, nCalls>>

\* The types whose provider has an error result, and so can fail.
Fallible == { t \in DOMAIN c.allProvidedTypes : c.allProvidedTypes[t].hasError }

\* The <<type, value>> pairs a call's log shows consumed.
Consumed(log) ==
    UNION { IF log[k].ev = "set"
            THEN { <<log[k].type, log[k].args[1]>> }
            ELSE IF log[k].ev = "call"
            THEN { <<c.allProvidedTypes[log[k].type].deps[j], log[k].args[j]>> :
                   j \in 1..Len(log[k].args) }
            ELSE {} : k \in 1..Len(log) }

\* The program calls c.Provide(dst), and the providers of the types in fail
\* return an error if they are invoked during the call.
ProvideCall ==
    /\ phase = "ready"
    /\ nCalls < MaxCalls
    /\ \E dst \in Destinations, fail \in SUBSET Fallible :
          LET s == [allProvidedTypes |-> c.allProvidedTypes,
                    resolvedTypes |-> c.resolvedTypes,
                    invoked |-> invoked, log |-> <<>>]
              p == Provide(s, dst, fail)
          IN  /\ phase' = IF p.abort = "fatal" THEN "crashed" ELSE "ready"
              /\ c' = [allProvidedTypes |-> p.s.allProvidedTypes,
                       resolvedTypes |-> p.s.resolvedTypes]
              /\ invoked' = p.s.invoked
              /\ succeeded' = [t \in Types |->
                                 succeeded[t] + Cardinality({ k \in 1..Len(p.s.log) :
                                     /\ p.s.log[k].ev = "call"
                                     /\ p.s.log[k].type = t
                                     /\ ~p.s.log[k].failed })]
              /\ delivered' = delivered \cup Consumed(p.s.log)
              /\ nCalls' = nCalls + 1
              /\ last' = CallRecord("Provide", <<>>, dst, fail, c.resolvedTypes,
                                    p.fields, p.err, p.abort, p.s.log)

Next == NewProviderCall \/ ProvideCall

Spec == Init /\ [][Next]_vars

\* ------------------------------------------------ vocabulary of the claims

\* The latest call was NewProvider / Provide.
Built == last.op = "NewProvider"
Called == last.op = "Provide"

\* A provider list entry that has a first output, and so a produced type.
HasOut(f) == f.kind = "func" /\ Len(f.out) >= 1

\* A non-nil function with one output, or two the second being error.
ShapeValid(f) ==
    /\ f.kind = "func"
    /\ ~f.isNil
    /\ Len(f.out) \in {1, 2}
    /\ (Len(f.out) = 2 => f.out[2] = ErrorType)

\* Entries i < j of the list produce the same type.
SameOut(list, i, j) ==
    /\ i < j
    /\ HasOut(list[i]) /\ HasOut(list[j])
    /\ list[i].out[1] = list[j].out[1]

HasDuplicate(list) == \E i, j \in 1..Len(list) : SameOut(list, i, j)

\* Every entry parses: valid shapes and no produced type twice.
AllParse(list) ==
    /\ \A i \in 1..Len(list) : ShapeValid(list[i])
    /\ ~HasDuplicate(list)

ProducedTypes(list) == { list[i].out[1] : i \in { k \in 1..Len(list) : HasOut(list[k]) } }

\* The declared input types that no entry produces.
MissingTypes(list) ==
    UNION { { list[i].in[j] : j \in 1..Len(list[i].in) } : i \in 1..Len(list) }
        \ ProducedTypes(list)

\* Entries i and j are distinct and each needs what the other produces.
Mutual(list, i, j) ==
    /\ i # j
    /\ HasOut(list[i]) /\ HasOut(list[j])
    /\ \E a \in 1..Len(list[i].in) : list[i].in[a] = list[j].out[1]
    /\ \E b \in 1..Len(list[j].in) : list[j].in[b] = list[i].out[1]

HasTwoCycle(list) == \E i, j \in 1..Len(list) : Mutual(list, i, j)

\* The least element of a non-empty set of numbers.
Least(S) == CHOOSE x \in S : \A y \in S : x <= y

\* The leaves of a destination in declaration order, groups that Provide
\* enters (exported struct fields tagged group) expanded in place, each with
\* the path of field names that leads to it.
RECURSIVE Leaves(_, _)
Leaves(fields, prefix) ==
    IF fields = <<>> THEN <<>>
    ELSE LET f == Head(fields)
             here == IF f.tag = "group" /\ f.kind = "struct" /\ f.exported
                     THEN Leaves(f.fields, Append(prefix, f.name))
                     ELSE << [path |-> Append(prefix, f.name), tag |-> f.tag,
                              type |-> f.type, value |-> f.value,
                              fields |-> f.fields] >>
         IN  here \o Leaves(Tail(fields), prefix)

LeavesBefore == Leaves(last.dst.fields, <<>>)
LeavesAfter == Leaves(last.out, <<>>)

IsDefaultTag(tag) == tag \notin {"group", "-"}

\* The field path an error of Provide names.
RECURSIVE PathOf(_)
PathOf(err) ==
    IF err = <<>> THEN <<>>
    ELSE IF Head(err).msg \in {"failed to resolve group", "failed to resolve field"}
    THEN <<Head(err).name>> \o PathOf(Tail(err))
    ELSE PathOf(Tail(err))

HasLayer(err, msg) == \E i \in 1..Len(err) : err[i].msg = msg

\* The provider invocations of the latest Provide call, as log positions.
CallEvents == { k \in 1..Len(last.log) : last.log[k].ev = "call" }

\* The events at which the latest call's failure arose.
FailureEvents ==
    { k \in 1..Len(last.log) :
        \/ last.log[k].ev = "error"
        \/ last.log[k].ev = "call" /\ last.log[k].failed }

\* The types reachable from the types S along declared dependencies.
RECURSIVE Closure(_, _)
Closure(reg, S) ==
    LET n == S \cup UNION { { reg[t].deps[j] : j \in 1..Len(reg[t].deps) } :
                            t \in S \cap DOMAIN reg }
    IN  IF n = S THEN S ELSE Closure(reg, n)

\* No type of the registry depends on itself, directly or through others.
Acyclic(reg) ==
    \A t \in DOMAIN reg :
        t \notin Closure(reg, { reg[t].deps[j] : j \in 1..Len(reg[t].deps) })

\* ------------------------------------------------------------------ claims

\* C1 as stated: over the lifetime of a Provider, whatever Provide calls are
\* made and however they end, the provider of a type is invoked at most once.
C1_InvokedAtMostOnce == \A t \in Types : invoked[t] <= 1

\* C1 amended: over the lifetime of a Provider the provider of a type
\* returns without error at most once, exactly when its type is cached; it
\* is never invoked while its type is cached, and at most once in one
\* Provide call. (A provider that returned an error is invoked again.)
C1_SucceedsAtMostOnce ==
    /\ \A t \in Types :
          /\ succeeded[t] <= 1
          /\ succeeded[t] = 1 <=> t \in DOMAIN c.resolvedTypes
    /\ Called =>
          /\ \A k \in CallEvents : last.log[k].type \notin last.log[k].cached
          /\ \A j, k \in CallEvents : last.log[j].type = last.log[k].type => j = k

\* A provider failed in one call and ran again, successfully, in the next.
C1_Witness ==
    /\ nCalls = 2
    /\ \E t \in Types : invoked[t] = 2 /\ succeeded[t] = 1

\* C2: every value handed to a consumer of type T, a destination field or
\* a provider argument, in any Provide call, is the one value cached for T;
\* so is what every default leaf of the latest destination was set to.
C2_SingletonPerType ==
    /\ \A d \in delivered :
          /\ d[1] \in DOMAIN c.resolvedTypes
          /\ c.resolvedTypes[d[1]] = d[2]
    /\ Called =>
          \A i \in 1..Len(LeavesAfter) :
             (IsDefaultTag(LeavesAfter[i].tag) /\ LeavesAfter[i].value # LeavesBefore[i].value)
                => /\ LeavesAfter[i].type \in DOMAIN c.resolvedTypes
                   /\ LeavesAfter[i].value = c.resolvedTypes[LeavesAfter[i].type]

\* A provider that returns a new value on every invocation ran twice; its
\* cached value is in two fields of the latest destination, one of them in
\* a group, and is an argument of another cached value.
C2_Witness ==
    /\ nCalls = 2
    /\ \E t \in DOMAIN c.resolvedTypes :
          /\ invoked[t] = 2
          /\ c.resolvedTypes[t].inv = 2
          /\ \E i, j \in 1..Len(LeavesAfter) :
                /\ i # j
                /\ Len(LeavesAfter[j].path) = 2
                /\ LeavesAfter[i].value = c.resolvedTypes[t]
                /\ LeavesAfter[j].value = c.resolvedTypes[t]
          /\ \E u \in DOMAIN c.resolvedTypes :
                \E a \in 1..Len(c.resolvedTypes[u].args) :
                   c.resolvedTypes[u].args[a] = c.resolvedTypes[t]

\* A parse error of NewProvider.
IsParseError(err) == Len(err) >= 2 /\ err[1].msg = "failed to parse providers"

\* NewProvider did not get past parsing: it returned a parse error, or it
\* panicked on an untyped nil in the list.
ParseFailed ==
    \/ last.abort = "none" /\ IsParseError(last.err)
    \/ /\ last.abort = "panic"
       /\ last.err = NoError
       /\ \E k \in 1..Len(last.depProviders) : last.depProviders[k].kind = "invalid"

\* The cyclic-dependency error of NewProvider.
IsCyclicError(err) ==
    /\ Len(err) = 2
    /\ err[1].msg = "should not have cyclic dependencies"
    /\ err[2].msg = "cyclic dependency found between providers"

\* C3 as stated: a provider list with two distinct mutually dependent
\* providers always makes NewProvider fail with the cyclic-dependency error.
C3_TwoCycleCyclicError ==
    (Built /\ HasTwoCycle(last.depProviders))
        => phase = "failed" /\ IsCyclicError(last.err)

\* C3 amended: such a list always makes NewProvider fail and return no
\* Provider; the error is the cyclic-dependency error, naming a mutually
\* dependent pair, when every provider parses and no dependency is missing;
\* otherwise parsing fails (a parse error, or a panic on an untyped nil) or
\* the error is the missing-dependency error, which are checked first.
C3_TwoCycleRejected ==
    (Built /\ HasTwoCycle(last.depProviders)) =>
        LET list == last.depProviders
        IN  /\ phase = "failed"
            /\ c = NoProvider
            /\ ~AllParse(list) => ParseFailed
            /\ (AllParse(list) /\ MissingTypes(list) # {}) =>
                  /\ last.abort = "none"
                  /\ Len(last.err) = 2
                  /\ last.err[1].msg = "all deps must be provided"
            /\ (AllParse(list) /\ MissingTypes(list) = {}) =>
                  /\ last.abort = "none"
                  /\ IsCyclicError(last.err)
                  /\ \E i, j \in 1..Len(list) :
                        /\ Mutual(list, i, j)
                        /\ last.err[2].name = list[i].name
                        /\ last.err[2].other = list[j].name

\* Three well-formed providers with all dependencies provided, two of them
\* mutually dependent, were rejected with the cyclic-dependency error.
C3_Witness ==
    /\ Built
    /\ Len(last.depProviders) = 3
    /\ HasTwoCycle(last.depProviders)
    /\ AllParse(last.depProviders)
    /\ MissingTypes(last.depProviders) = {}
    /\ phase = "failed"
    /\ IsCyclicError(last.err)

\* The missing-dependency error of NewProvider naming type t.
MissingError(t) ==
    << [msg |-> "all deps must be provided"],
       [msg |-> "dependency is not provided", type |-> t] >>

\* C4 as stated: whenever a provider declares an input type that no
\* provider of the list produces, NewProvider fails with the
\* missing-dependency error naming that type.
C4_MissingNamed ==
    Built => \A t \in MissingTypes(last.depProviders) :
                phase = "failed" /\ last.err = MissingError(t)

\* The first input of entry f that no entry of the list produces.
FirstMissingInput(list, f) ==
    f.in[Least({ j \in 1..Len(f.in) : f.in[j] \notin ProducedTypes(list) })]

\* C4 amended: such a list always makes NewProvider fail and return no
\* Provider (so no Provide call can meet the gap); when every provider
\* parses, the error is the missing-dependency error and names the first
\* unproduced input of one of the providers that have one; otherwise
\* parsing fails (a parse error, or a panic on an untyped nil).
C4_MissingRejected ==
    (Built /\ MissingTypes(last.depProviders) # {}) =>
        LET list == last.depProviders
        IN  /\ phase = "failed"
            /\ c = NoProvider
            /\ ~AllParse(list) => ParseFailed
            /\ AllParse(list) =>
                  \E i \in 1..Len(list) :
                     /\ \E j \in 1..Len(list[i].in) :
                           list[i].in[j] \notin ProducedTypes(list)
                     /\ last.err = MissingError(FirstMissingInput(list, list[i]))

\* A well-formed list with two different missing types was rejected with
\* the missing-dependency error.
C4_Witness ==
    /\ Built
    /\ AllParse(last.depProviders)
    /\ Cardinality(MissingTypes(last.depProviders)) = 2
    /\ phase = "failed"
    /\ \E t \in MissingTypes(last.depProviders) : last.err = MissingError(t)

\* The duplicate-provider error of NewProvider for entry j of the list,
\* whose type entry i produced first.
DuplicateError(list, i, j) ==
    << [msg |-> "failed to parse providers"],
       [msg |-> "provider returns the same type", index |-> j - 1,
        name |-> list[j].name, type |-> list[j].out[1],
        other |-> list[i].name] >>

\* C5 as stated: a list in which two providers have the same first output
\* type makes NewProvider fail with the duplicate-provider error, which
\* names the later of two such providers (index, name) and the earlier.
C5_DuplicateError ==
    (Built /\ HasDuplicate(last.depProviders)) =>
        /\ phase = "failed"
        /\ \E i, j \in 1..Len(last.depProviders) :
              /\ SameOut(last.depProviders, i, j)
              /\ last.err = DuplicateError(last.depProviders, i, j)

\* The first entry whose produced type an earlier entry produces.
FirstDuplicate(list) ==
    Least({ j \in 1..Len(list) : \E i \in 1..Len(list) : SameOut(list, i, j) })

\* C5 amended: such a list never makes NewProvider return a Provider. If
\* every provider up to and including the first one that repeats a produced
\* type is a non-nil function of valid shape, NewProvider fails with the
\* duplicate-provider error naming that provider (index, name) and the
\* first provider of its type; otherwise it fails at the first malformed
\* provider, with the parse error of that provider, or with a panic if it
\* is an untyped nil.
C5_DuplicateRejected ==
    (Built /\ HasDuplicate(last.depProviders)) =>
        LET list == last.depProviders
            j == FirstDuplicate(list)
            bad == { k \in 1..j : ~ShapeValid(list[k]) }
        IN  /\ phase = "failed"
            /\ c = NoProvider
            /\ bad = {} =>
                  /\ last.abort = "none"
                  /\ last.err = DuplicateError(list,
                                    Least({ i \in 1..j : SameOut(list, i, j) }), j)
            /\ bad # {} =>
                  IF list[Least(bad)].kind = "invalid"
                  THEN last.abort = "panic" /\ last.err = NoError
                  ELSE /\ last.abort = "none"
                       /\ IsParseError(last.err)
                       /\ last.err[2].msg \in
                             { "provider is not a function",
                               "failed to get function name for provider",
                               "provider has no output",
                               "provider has more than two outputs",
                               "second output is not an error" }
                       /\ last.err[2].index = Least(bad) - 1

\* The third provider of a list of well-formed ones repeated a produced
\* type and the error names it, by index 2.
C5_Witness ==
    /\ Built
    /\ HasDuplicate(last.depProviders)
    /\ \A k \in 1..Len(last.depProviders) : ShapeValid(last.depProviders[k])
    /\ FirstDuplicate(last.depProviders) = 3
    /\ phase = "failed"
    /\ Len(last.err) = 2
    /\ last.err[2].msg = "provider returns the same type"
    /\ last.err[2].index = 2

\* The fields Provide's loop reached that are default fields of a type
\* without a provider, as log positions.
UnprovidedVisits ==
    { k \in 1..Len(last.log) :
        /\ last.log[k].ev = "visit"
        /\ IsDefaultTag(last.log[k].args[2])
        /\ last.log[k].type \notin DOMAIN c.allProvidedTypes }

\* C6: a Provide call fails with "no provider found for type" exactly when
\* its loop reaches a default field, top-level or in a group, whose type is
\* no key of the registry; the error then names that type directly under
\* the field, never under a provider's dependency.
C6_NoProviderIffUnprovidedField ==
    Called =>
        /\ HasLayer(last.err, "no provider found for type") <=> UnprovidedVisits # {}
        /\ HasLayer(last.err, "no provider found for type") =>
              /\ ~HasLayer(last.err, "failed to resolve dependency")
              /\ last.abort = "none"
              /\ \E k \in UnprovidedVisits :
                    /\ last.err[Len(last.err)].type = last.log[k].type
                    /\ last.err[Len(last.err) - 1].msg = "failed to resolve field"
                    /\ last.err[Len(last.err) - 1].name = last.log[k].args[1]

\* A call on a Provider with providers set a field and then failed at a
\* default field inside a group whose type has no provider.
C6_Witness ==
    /\ Called
    /\ DOMAIN c.allProvidedTypes # {}
    /\ HasLayer(last.err, "no provider found for type")
    /\ Len(PathOf(last.err)) = 2
    /\ \E k \in 1..Len(last.log) : last.log[k].ev = "set"

\* A pointer to a struct, nil or not.
IsStructPointer(dst) == dst.kind \in {"ptrStruct", "nilPtrStruct"}

\* C7 as stated: on every Provider that NewProvider returned, a Provide
\* call with a pointer to a struct terminates, after at most as many
\* provider invocations as the registry has providers.
C7_Terminates ==
    (Called /\ IsStructPointer(last.dst)) =>
        /\ last.abort # "fatal"
        /\ Cardinality(CallEvents) <= Cardinality(DOMAIN c.allProvidedTypes)

\* C7 amended: a Provide call with a pointer to a struct never makes more
\* provider invocations than the registry has providers, and on a Provider
\* whose dependency graph has no cycle of any length it terminates: it
\* returns, or reflect panics (on a nil pointer, or on an unexported default
\* field). (NewProvider also returns Providers with a cycle of length 1 or
\* of 3 and more, on which resolve recurses until the stack overflows.)
C7_TerminatesIfAcyclic ==
    (Called /\ IsStructPointer(last.dst)) =>
        /\ Cardinality(CallEvents) <= Cardinality(DOMAIN c.allProvidedTypes)
        /\ Acyclic(c.allProvidedTypes) => last.abort \in {"none", "panic"}
        /\ last.abort = "fatal" => phase = "crashed"

\* One successful call on an acyclic registry of three providers invoked
\* all three.
C7_Witness ==
    /\ Called
    /\ last.dst.kind = "ptrStruct"
    /\ Acyclic(c.allProvidedTypes)
    /\ Cardinality(DOMAIN c.allProvidedTypes) = 3
    /\ Cardinality(CallEvents) = 3
    /\ last.abort = "none"
    /\ last.err = NoError

\* The positions of the leaf the error of the latest call names.
FailedLeaf == { k \in 1..Len(LeavesBefore) : LeavesBefore[k].path = PathOf(last.err) }

\* C8: when Provide returns an error for a pointer to a struct, the error
\* names one leaf of the destination; every default leaf declared before it
\* holds the cached value of its type, every ignored leaf before it, the
\* leaf itself and every leaf after it are as they were before the call,
\* and the failure is the last event of the call: no provider runs after.
C8_AbortsAtFailure ==
    (Called /\ last.dst.kind = "ptrStruct" /\ last.abort = "none" /\ last.err # NoError) =>
        /\ Cardinality(FailedLeaf) = 1
        /\ \A k \in FailedLeaf :
              /\ \A i \in 1..(k - 1) :
                    /\ LeavesBefore[i].tag # "group"
                    /\ IsDefaultTag(LeavesBefore[i].tag) =>
                          /\ LeavesAfter[i].type \in DOMAIN c.resolvedTypes
                          /\ LeavesAfter[i].value = c.resolvedTypes[LeavesAfter[i].type]
                    /\ LeavesBefore[i].tag = "-" => LeavesAfter[i] = LeavesBefore[i]
              /\ \A i \in k..Len(LeavesBefore) : LeavesAfter[i] = LeavesBefore[i]
        /\ FailureEvents = {Len(last.log)}

\* A call failed at a preset field inside a group, after setting the field
\* before it in the same group and with fields still to come.
C8_Witness ==
    /\ Called /\ last.abort = "none" /\ last.err # NoError
    /\ \E k \in FailedLeaf :
          /\ k >= 3
          /\ k < Len(LeavesBefore)
          /\ Len(LeavesBefore[k].path) = 2
          /\ LeavesBefore[k].value = Preset
          /\ Len(LeavesBefore[k - 1].path) = 2
          /\ LeavesBefore[k - 1].value = Zero
          /\ LeavesAfter[k - 1].value = c.resolvedTypes[LeavesAfter[k - 1].type]

\* The error the inv-th invocation of the provider of t returns.
ProviderError(t, inv) == [msg |-> "provider error", type |-> t, inv |-> inv]

\* C9: when a provider invoked during a Provide call returns an error,
\* Provide returns an error whose cause chain contains that error.
C9_ErrorChained ==
    Called =>
        \A k \in CallEvents :
           last.log[k].failed =>
              /\ last.abort = "none"
              /\ ErrorsIs(last.err, ProviderError(last.log[k].type,
                                                  invoked[last.log[k].type]))

\* A provider two dependency hops below a field two groups deep failed.
C9_Witness ==
    /\ Called
    /\ \E k \in CallEvents : last.log[k].failed
    /\ Len(PathOf(last.err)) = 3
    /\ Cardinality({ i \in 1..Len(last.err) :
                       last.err[i].msg = "failed to resolve dependency" }) = 2

\* The types the non-ignored default leaves of the latest destination need.
NeededTypes ==
    Closure(c.allProvidedTypes,
            { LeavesBefore[i].type :
                i \in { k \in 1..Len(LeavesBefore) : IsDefaultTag(LeavesBefore[k].tag) } })

\* C10: Provide skips a field tagged "-": the field is the same after the
\* call, every provider invoked and every type cached during the call is
\* needed by some other, default field, and the error never names it.
C10_IgnoredSkipped ==
    (Called /\ last.dst.kind = "ptrStruct") =>
        /\ \A i \in 1..Len(LeavesBefore) :
              LeavesBefore[i].tag = "-" =>
                 /\ LeavesAfter[i] = LeavesBefore[i]
                 /\ PathOf(last.err) # LeavesBefore[i].path
        /\ \A k \in CallEvents : last.log[k].type \in NeededTypes
        /\ (DOMAIN c.resolvedTypes \ DOMAIN last.before) \subseteq NeededTypes

\* A call succeeded on a destination with a preset ignored field whose
\* type has no provider, and set a field declared after it.
C10_Witness ==
    /\ Called /\ last.abort = "none" /\ last.err = NoError
    /\ \E i \in 1..Len(LeavesBefore) :
          /\ LeavesBefore[i].tag = "-"
          /\ LeavesBefore[i].type \notin DOMAIN c.allProvidedTypes
          /\ LeavesAfter[i].value = Preset
          /\ i < Len(LeavesBefore)
          /\ LeavesAfter[i + 1].value = c.resolvedTypes[LeavesAfter[i + 1].type]

\* The types of the group fields of a struct, at any depth.
RECURSIVE GroupTypes(_)
GroupTypes(fields) ==
    IF fields = <<>> THEN {}
    ELSE LET f == Head(fields)
         IN  (IF f.tag = "group" THEN {f.type} \cup GroupTypes(f.fields) ELSE {})
                \cup GroupTypes(Tail(fields))

\* The latest Provide call returned nil.
Succeeded == Called /\ last.abort = "none" /\ last.err = NoError

\* C11: after a successful Provide call every default leaf, top-level or
\* inside a group at any depth, holds the value cached for its type in the
\* Provider's one cache; and a group field's own type is not looked up: if
\* no default field needs it, its provider is not invoked, it is not
\* cached, and no error reports it as having no provider.
C11_GroupInjected ==
    (Called /\ last.dst.kind = "ptrStruct") =>
        /\ Succeeded =>
              \A i \in 1..Len(LeavesAfter) :
                 IsDefaultTag(LeavesAfter[i].tag) =>
                    /\ LeavesAfter[i].type \in DOMAIN c.resolvedTypes
                    /\ LeavesAfter[i].value = c.resolvedTypes[LeavesAfter[i].type]
        /\ \A g \in GroupTypes(last.dst.fields) \ NeededTypes :
              /\ \A k \in CallEvents : last.log[k].type # g
              /\ g \in DOMAIN c.resolvedTypes => g \in DOMAIN last.before
              /\ ~ /\ HasLayer(last.err, "no provider found for type")
                    /\ last.err[Len(last.err)].type = g

\* A call succeeded on a destination whose group field has a type with a
\* provider that never ran; a sub-field of the group and a top-level field
\* of the same type hold the same cached value.
C11_Witness ==
    /\ Succeeded
    /\ \E g \in GroupTypes(last.dst.fields) :
          /\ g \in DOMAIN c.allProvidedTypes
          /\ invoked[g] = 0
          /\ g \notin DOMAIN c.resolvedTypes
    /\ \E i, j \in 1..Len(LeavesAfter) :
          /\ Len(LeavesAfter[i].path) = 1
          /\ Len(LeavesAfter[j].path) = 2
          /\ LeavesAfter[i].type = LeavesAfter[j].type
          /\ LeavesBefore[j].value = Zero
          /\ LeavesAfter[j].value = c.resolvedTypes[LeavesAfter[j].type]
          /\ LeavesAfter[i].value = LeavesAfter[j].value

\* The error Provide returns for a destination that is no pointer to a struct.
IsDestinationError(err) ==
    Len(err) = 1 /\ err[1].msg = "destination must be a pointer to a struct"

\* C12: a Provide call with a struct passed by value or with a pointer to
\* a non-struct returns the destination error; no provider is invoked in
\* the call, the cache is what it was before the call, and nothing of the
\* destination is written.
C12_InvalidDestination ==
    (Called /\ last.dst.kind \in {"struct", "ptrOther"}) =>
        /\ last.abort = "none"
        /\ IsDestinationError(last.err)
        /\ CallEvents = {}
        /\ c.resolvedTypes = last.before
        /\ last.out = last.dst.fields

\* A struct with a field of a type that has a provider and is not cached
\* was passed by value.
C12_Witness ==
    /\ Called
    /\ last.dst.kind = "struct"
    /\ IsDestinationError(last.err)
    /\ \E i \in 1..Len(last.dst.fields) :
          /\ last.dst.fields[i].type \in DOMAIN c.allProvidedTypes
          /\ last.dst.fields[i].type \notin DOMAIN c.resolvedTypes

\* A pointer to a non-struct was passed to a Provider that has cached
\* values and has providers that have not run.
C12_WitnessCached ==
    /\ Called
    /\ last.dst.kind = "ptrOther"
    /\ IsDestinationError(last.err)
    /\ last.before # EmptyMap
    /\ DOMAIN c.allProvidedTypes \ DOMAIN last.before # {}

\* A function whose outputs NewProvider does not accept, and the message
\* of the invalid-shape error for it.
BadOutputs(f) ==
    /\ f.kind = "func"
    /\ \/ Len(f.out) \notin {1, 2}
       \/ Len(f.out) = 2 /\ f.out[2] # ErrorType

ShapeMessage(f) ==
    IF Len(f.out) < 1 THEN "provider has no output"
    ELSE IF Len(f.out) > 2 THEN "provider has more than two outputs"
    ELSE "second output is not an error"

ShapeMessages ==
    { "provider has no output", "provider has more than two outputs",
      "second output is not an error" }

\* NewProvider failed with an invalid-shape error.
IsShapeError(err) == IsParseError(err) /\ err[2].msg \in ShapeMessages

\* The entries of the list with unacceptable outputs.
BadEntries(list) == { k \in 1..Len(list) : BadOutputs(list[k]) }

\* C13 as stated: every provider list that contains a provider with zero
\* outputs, more than two outputs, or two outputs the second not being
\* error makes NewProvider fail with an invalid-shape error.
C13_ShapeError ==
    (Built /\ BadEntries(last.depProviders) # {}) =>
        phase = "failed" /\ IsShapeError(last.err)

\* C13 amended: such a list never makes NewProvider return a Provider:
\* parsing fails. If the first such provider is a non-nil function and the
\* providers before it are non-nil functions of valid shape with distinct
\* produced types, the failure is the invalid-shape error of that provider
\* (its index, its name, the message of its defect); otherwise an earlier
\* parse failure is reported. Providers with one output, or with two the
\* second being error, pass the check: an invalid-shape error always names
\* a provider whose outputs are unacceptable.
C13_ShapeRejected ==
    Built =>
        LET list == last.depProviders
            bad == BadEntries(list)
        IN  /\ bad # {} =>
                  /\ phase = "failed"
                  /\ c = NoProvider
                  /\ ParseFailed
                  /\ ( /\ ~list[Least(bad)].isNil
                       /\ \A k \in 1..(Least(bad) - 1) : ShapeValid(list[k])
                       /\ \A i, j \in 1..(Least(bad) - 1) : ~SameOut(list, i, j) )
                     => last.err =
                           << [msg |-> "failed to parse providers"],
                              [msg |-> ShapeMessage(list[Least(bad)]),
                               index |-> Least(bad) - 1,
                               name |-> list[Least(bad)].name] >>
            /\ IsShapeError(last.err) =>
                  /\ last.err[2].index + 1 \in bad
                  /\ last.err[2].msg = ShapeMessage(list[last.err[2].index + 1])

\* The third provider of a list has two outputs, the second not error; the
\* two before it are well-formed with distinct types; the invalid-shape
\* error names index 2.
C13_Witness ==
    /\ Built
    /\ Len(last.depProviders) = 3
    /\ BadEntries(last.depProviders) = {3}
    /\ Len(last.depProviders[3].out) = 2
    /\ ShapeValid(last.depProviders[1]) /\ ShapeValid(last.depProviders[2])
    /\ Len(last.depProviders[2].out) = 2
    /\ ~SameOut(last.depProviders, 1, 2)
    /\ phase = "failed"
    /\ IsShapeError(last.err)
    /\ last.err[2].index = 2

\* Every provider that the value of type t is computed from returns the
\* same value for the same arguments.
Deterministic(reg, t) ==
    \A u \in Closure(reg, {t}) \cap DOMAIN reg : ~reg[u].fresh

\* The value of type t as a function of the registry alone: the result of
\* the provider of t for the values of its dependency types.
RECURSIVE Canonical(_, _)
Canonical(reg, t) ==
    Value(t, 0, [j \in 1..Len(reg[t].deps) |-> Canonical(reg, reg[t].deps[j])])

\* C14: with deterministic providers, the value cached for a type, and so
\* the value a successful Provide call leaves in a default field of that
\* type, is a function of the registry and the type; it does not depend on
\* the destination, the order of its fields, the calls made before or
\* which of them failed.
C14_Deterministic ==
    /\ \A t \in DOMAIN c.resolvedTypes :
          Deterministic(c.allProvidedTypes, t) =>
             c.resolvedTypes[t] = Canonical(c.allProvidedTypes, t)
    /\ (Succeeded /\ last.dst.kind = "ptrStruct") =>
          \A i \in 1..Len(LeavesAfter) :
             ( /\ IsDefaultTag(LeavesAfter[i].tag)
               /\ Deterministic(c.allProvidedTypes, LeavesAfter[i].type) )
                => LeavesAfter[i].value =
                      Canonical(c.allProvidedTypes, LeavesAfter[i].type)

\* The second call on a Provider succeeded and set a field to a value
\* computed, by deterministic providers, in this call from a value that an
\* earlier call cached.
C14_Witness ==
    /\ Succeeded
    /\ nCalls = 2
    /\ \E i \in 1..Len(LeavesAfter) :
          LET t == LeavesAfter[i].type
          IN  /\ IsDefaultTag(LeavesAfter[i].tag)
              /\ t \in DOMAIN c.allProvidedTypes
              /\ Deterministic(c.allProvidedTypes, t)
              /\ t \notin DOMAIN last.before
              /\ \E j \in 1..Len(c.allProvidedTypes[t].deps) :
                    c.allProvidedTypes[t].deps[j] \in DOMAIN last.before
              /\ LeavesAfter[i].value = Canonical(c.allProvidedTypes, t)

\* C15: at every provider invocation of a Provide call, each dependency
\* type of the invoked provider is a key of the cache at that moment, and
\* the arguments are the cached values of the dependency types, one per
\* declared dependency and in the declared order.
C15_ArgsAreCachedDeps ==
    Called =>
        \A k \in CallEvents :
           LET deps == c.allProvidedTypes[last.log[k].type].deps
           IN  /\ Len(last.log[k].args) = Len(deps)
               /\ \A j \in 1..Len(deps) :
                     /\ deps[j] \in last.log[k].cached
                     /\ deps[j] \in DOMAIN c.resolvedTypes
                     /\ last.log[k].args[j] = c.resolvedTypes[deps[j]]

\* A provider with two dependencies of different types was invoked; one
\* dependency was cached by an earlier call, the other in this call.
C15_Witness ==
    /\ Called
    /\ \E k \in CallEvents :
          LET deps == c.allProvidedTypes[last.log[k].type].deps
          IN  /\ Len(deps) = 2
              /\ deps[1] # deps[2]
              /\ deps[2] \in DOMAIN last.before
              /\ deps[1] \notin DOMAIN last.before
              /\ last.log[k].args[1] # last.log[k].args[2]

\* The elements of a sequence.
Range(seq) == { seq[i] : i \in 1..Len(seq) }

\* sq is an initial part of full.
IsPrefix(sq, full) == Len(sq) <= Len(full) /\ sq = SubSeq(full, 1, Len(sq))

\* The depth-first post-order of the dependency tree of type t, and of the
\* trees of the types ts one after the other, each provider's dependencies
\* in declared order, the types in seen and the types met earlier in the
\* traversal left out. A type without a provider has no tree.
RECURSIVE PostOrder(_, _, _)
RECURSIVE PostOrderAll(_, _, _)
PostOrder(reg, seen, t) ==
    IF t \in seen \/ t \notin DOMAIN reg THEN <<>>
    ELSE PostOrderAll(reg, seen, reg[t].deps) \o <<t>>

PostOrderAll(reg, seen, ts) ==
    IF ts = <<>> THEN <<>>
    ELSE LET first == PostOrder(reg, seen, Head(ts))
         IN  first \o PostOrderAll(reg, seen \cup Range(first), Tail(ts))

\* The types of the default leaves of the latest destination, in
\* declaration order.
RECURSIVE DefaultTypes(_)
DefaultTypes(leaves) ==
    IF leaves = <<>> THEN <<>>
    ELSE (IF IsDefaultTag(Head(leaves).tag) THEN <<Head(leaves).type>> ELSE <<>>)
            \o DefaultTypes(Tail(leaves))

\* The types whose providers the latest call invoked, in order.
RECURSIVE TypesInvoked(_)
TypesInvoked(log) ==
    IF log = <<>> THEN <<>>
    ELSE (IF Head(log).ev = "call" THEN <<Head(log).type>> ELSE <<>>)
            \o TypesInvoked(Tail(log))

\* No type the latest destination needs lies on a dependency cycle, so the
\* dependency trees of its fields are finite.
NeededAcyclic ==
    \A t \in NeededTypes \cap DOMAIN c.allProvidedTypes :
        t \notin Closure(c.allProvidedTypes,
                         Range(c.allProvidedTypes[t].deps))

\* The post-order of the trees of the latest destination's default leaves,
\* without the types cached before the call.
ExpectedInvocations ==
    PostOrderAll(c.allProvidedTypes, DOMAIN last.before, DefaultTypes(LeavesBefore))

\* C16 as stated: the invocations of one Provide call are exactly the
\* depth-first post-order of the dependency trees of its non-ignored
\* fields, cached types skipped.
C16_PostOrder ==
    (Called /\ last.dst.kind = "ptrStruct" /\ NeededAcyclic) =>
        TypesInvoked(last.log) = ExpectedInvocations

\* C16 amended: the invocations of one Provide call are an initial part of
\* that post-order, so no provider outside the trees is invoked; they are
\* the whole of it when the call returns nil, and when a provider returns
\* an error its invocation is the last one of the call.
C16_PostOrderPrefix ==
    (Called /\ last.dst.kind = "ptrStruct" /\ NeededAcyclic) =>
        /\ IsPrefix(TypesInvoked(last.log), ExpectedInvocations)
        /\ Succeeded => TypesInvoked(last.log) = ExpectedInvocations
        /\ \A k \in CallEvents :
              last.log[k].failed => \A j \in CallEvents : j <= k

\* A successful call on a destination with a group invoked two providers,
\* the second depending on the first, and skipped a cached type that two
\* of its fields need.
C16_Witness ==
    /\ Succeeded
    /\ \E i \in 1..Len(LeavesBefore) : Len(LeavesBefore[i].path) = 2
    /\ Len(TypesInvoked(last.log)) = 2
    /\ TypesInvoked(last.log)[1]
          \in Range(c.allProvidedTypes[TypesInvoked(last.log)[2]].deps)
    /\ \E i, j \in 1..Len(LeavesBefore) :
          /\ i # j
          /\ LeavesBefore[i].type = LeavesBefore[j].type
          /\ IsDefaultTag(LeavesBefore[i].tag) /\ IsDefaultTag(LeavesBefore[j].tag)
          /\ LeavesBefore[i].type \in DOMAIN last.before

\* A call made one invocation, which failed, although the post-order of
\* its destination has three.
C16_WitnessFailed ==
    /\ Called /\ last.abort = "none" /\ last.err # NoError
    /\ NeededAcyclic
    /\ Len(TypesInvoked(last.log)) = 1
    /\ Len(ExpectedInvocations) = 3

\* Type t lies on a dependency cycle through three distinct types of the
\* registry (with the three types of the model, every cycle of length 3 or
\* more is one).
OnLongCycle(reg, t) ==
    /\ t \in DOMAIN reg
    /\ \E u, v \in DOMAIN reg :
          /\ u # t /\ v # t /\ u # v
          /\ u \in Range(reg[t].deps)
          /\ v \in Range(reg[u].deps)
          /\ t \in Range(reg[v].deps)

\* Three entries of the list depend on one another in a ring.
HasLongCycle(list) ==
    \E i, j, k \in 1..Len(list) :
       /\ i # j /\ j # k /\ i # k
       /\ HasOut(list[i]) /\ HasOut(list[j]) /\ HasOut(list[k])
       /\ list[j].out[1] \in Range(list[i].in)
       /\ list[k].out[1] \in Range(list[j].in)
       /\ list[i].out[1] \in Range(list[k].in)

\* The default fields whose type lies on a long cycle that the loop of the
\* latest Provide call reached, as log positions.
LongCycleVisits ==
    { k \in 1..Len(last.log) :
        /\ last.log[k].ev = "visit"
        /\ IsDefaultTag(last.log[k].args[2])
        /\ OnLongCycle(c.allProvidedTypes, last.log[k].type) }

C17_WitnessAccepted ==
    /\ Built
    /\ HasLongCycle(last.depProviders)
    /\ phase = "ready"

\* Every type cached before a step is cached after it, with the same value.
CacheKept ==
    \A t \in DOMAIN c.resolvedTypes :
       /\ t \in DOMAIN c'.resolvedTypes
       /\ c'.resolvedTypes[t] = c.resolvedTypes[t]

\* What the providers that returned without error in the latest call
\* returned is cached, however the call ended.
ResultsKept ==
    Called =>
        \A k \in CallEvents :
           ~last.log[k].failed =>
              /\ last.log[k].type \in DOMAIN c.resolvedTypes
              /\ c.resolvedTypes[last.log[k].type].args = last.log[k].args

\* C18: no step of the program removes a type from the cache or changes
\* the value cached for it, whether the Provide call succeeds, fails,
\* panics or overflows; and the values resolved in a call before it failed
\* are cached after it.
C18_CacheOnlyGrows == [][CacheKept]_vars /\ []ResultsKept

\* The second call on a Provider failed part-way: the cache holds what it
\* held before the call and a value resolved in the call before the
\* failure.
C18_Witness ==
    /\ Called /\ last.abort = "none" /\ last.err # NoError
    /\ nCalls = 2
    /\ last.before # EmptyMap
    /\ \A t \in DOMAIN last.before :
          t \in DOMAIN c.resolvedTypes /\ c.resolvedTypes[t] = last.before[t]
    /\ DOMAIN c.resolvedTypes \ DOMAIN last.before # {}
    /\ \E k \in CallEvents : last.log[k].failed

\* The set of types S holds only keys of the registry and, with each of
\* them, its dependency types.
DependencyClosed(reg, S) ==
    /\ S \subseteq DOMAIN reg
    /\ \A t \in S : Range(reg[t].deps) \subseteq S

\* C19: the keys of the cache are keys of the registry and, with a type,
\* hold each of its dependency types: in every state between the calls of
\* the API, and at every event inside a Provide call.
C19_CacheDependencyClosed ==
    /\ DependencyClosed(c.allProvidedTypes, DOMAIN c.resolvedTypes)
    /\ Called =>
          \A k \in 1..Len(last.log) :
             DependencyClosed(c.allProvidedTypes, last.log[k].cached)

\* After a call that failed, the cache holds a type with a dependency but
\* not every type of the registry.
C19_Witness ==
    /\ Called /\ last.abort = "none" /\ last.err # NoError
    /\ \E t \in DOMAIN c.resolvedTypes : c.allProvidedTypes[t].deps # <<>>
    /\ DOMAIN c.allProvidedTypes \ DOMAIN c.resolvedTypes # {}
    /\ \E k \in 1..Len(last.log) :
          last.log[k].cached \notin {{}, DOMAIN c.resolvedTypes}

\* The types whose provider returned an error in the latest Provide call.
FailedTypes ==
    IF Called
    THEN { last.log[k].type : k \in { j \in CallEvents : last.log[j].failed } }
    ELSE {}

\* The types whose provider returned without error in the latest call.
SucceededTypes ==
    IF Called
    THEN { last.log[k].type : k \in { j \in CallEvents : ~last.log[j].failed } }
    ELSE {}

\* The step is a Provide call that follows a call in which the provider of
\* t failed: if it returns nil and needs t, or leaves t cached, it invoked
\* the provider of t, once; t is cached after it exactly if that
\* invocation returned no error.
Retried(t) ==
    (last'.op = "Provide" /\ nCalls' = nCalls + 1) =>
        /\ (t \in DOMAIN c'.resolvedTypes \/ (Succeeded' /\ t \in NeededTypes'))
              => /\ invoked'[t] = invoked[t] + 1
                 /\ t \in SucceededTypes'
        /\ t \in SucceededTypes' <=> t \in DOMAIN c'.resolvedTypes
        /\ t \in FailedTypes' => invoked'[t] = invoked[t] + 1

\* C20: after a Provide call in which the provider of T returned an error,
\* T is not cached; the next Provide call that resolves T invokes the
\* provider of T again, and caches its value if it returns no error.
C20_FailureNotMemoized ==
    /\ [](\A t \in FailedTypes : t \notin DOMAIN c.resolvedTypes)
    /\ [][\A t \in FailedTypes : Retried(t)]_vars

\* A provider that failed in the first call was invoked again in the
\* second, which succeeded; its second result is cached and in a field.
C20_Witness ==
    /\ Succeeded
    /\ nCalls = 2
    /\ \E t \in SucceededTypes :
          /\ invoked[t] = 2
          /\ t \notin DOMAIN last.before
          /\ c.resolvedTypes[t].inv = 2
          /\ \E i \in 1..Len(LeavesAfter) : LeavesAfter[i].value = c.resolvedTypes[t]

\* The entries of the list that do not parse: no non-nil function of valid
\* shape, or one that produces the type of an earlier entry.
Unparsed(list) ==
    { k \in 1..Len(list) :
        \/ ~ShapeValid(list[k])
        \/ \E i \in 1..(k - 1) : SameOut(list, i, k) }

\* The parse error of entry k of the list, the first that does not parse.
ParseErrorOf(list, k) ==
    LET f == list[k]
    IN  IF f.kind # "func"
        THEN << [msg |-> "failed to parse providers"],
                [msg |-> "provider is not a function", index |-> k - 1] >>
        ELSE IF f.isNil
        THEN << [msg |-> "failed to parse providers"],
                [msg |-> "failed to get function name for provider", index |-> k - 1],
                [msg |-> "failed to get function runtime"] >>
        ELSE IF BadOutputs(f)
        THEN << [msg |-> "failed to parse providers"],
                [msg |-> ShapeMessage(f), index |-> k - 1, name |-> f.name] >>
        ELSE DuplicateError(list, Least({ i \in 1..(k - 1) : SameOut(list, i, k) }), k)

\* C21: a NewProvider call ends with one error or with a Provider, by a
\* fixed precedence. If some provider does not parse, the error is the
\* parse error of the first such provider in list order, whatever comes
\* after it; if all parse and a dependency is missing, it is a
\* missing-dependency error, also when the list has a 2-cycle; if none is
\* missing and two providers depend on each other, it is the
\* cyclic-dependency error; otherwise there is no error. (Lists whose first
\* unparsed entry is an untyped nil are left aside.)
C21_ErrorPrecedence ==
    Built =>
        LET list == last.depProviders
            bad == Unparsed(list)
        IN  /\ (bad # {} /\ list[Least(bad)].kind # "invalid") =>
                  /\ phase = "failed" /\ last.abort = "none"
                  /\ last.err = ParseErrorOf(list, Least(bad))
            /\ (bad = {} /\ MissingTypes(list) # {}) =>
                  /\ phase = "failed" /\ last.abort = "none"
                  /\ \E t \in MissingTypes(list) : last.err = MissingError(t)
            /\ (bad = {} /\ MissingTypes(list) = {} /\ HasTwoCycle(list)) =>
                  /\ phase = "failed" /\ last.abort = "none"
                  /\ IsCyclicError(last.err)
            /\ (bad = {} /\ MissingTypes(list) = {} /\ ~HasTwoCycle(list)) =>
                  /\ phase = "ready" /\ last.abort = "none"
                  /\ last.err = NoError
            /\ phase = "failed" => c = NoProvider

\* A list of well-formed providers with a 2-cycle and a missing dependency
\* was rejected with the missing-dependency error.
C21_Witness ==
    /\ Built
    /\ Unparsed(last.depProviders) = {}
    /\ HasTwoCycle(last.depProviders)
    /\ MissingTypes(last.depProviders) # {}
    /\ phase = "failed"
    /\ Len(last.err) = 2
    /\ last.err[1].msg = "all deps must be provided"

\* A list whose second provider repeats a type and whose third has no
\* output, beside a missing dependency, was rejected with the duplicate
\* error of the second.
C21_WitnessParseFirst ==
    /\ Built
    /\ Len(last.depProviders) = 3
    /\ Unparsed(last.depProviders) = {2, 3}
    /\ BadOutputs(last.depProviders[3])
    /\ MissingTypes(last.depProviders) # {}
    /\ Len(last.err) = 2
    /\ last.err[2].msg = "provider returns the same type"
    /\ last.err[2].index = 1

====
